---------------------------- MODULE Spec2Model ----------------------------
(***************************************************************************)
(* The fixed-order, resumable pipeline runner of create_people_posters     *)
(* (orchestrator.py): the step registry, the checkpoint files under        *)
(* STATE_DIR, the run lock, the start-point resolution and the run loop.   *)
(*                                                                         *)
(* Every invocation of main() is a process p.  The files under STATE_DIR   *)
(* (checkpoints and run.lock) are shared by all invocations.  The child    *)
(* processes, their logs, the file system probes and the environment are   *)
(* inputs drawn where the code reads them.                                 *)
(***************************************************************************)
EXTENDS Integers, Sequences, FiniteSets, TLC

(***************************************************************************)
(* Bounds of the model.                                                    *)
(***************************************************************************)
\* the largest count a log line or a directory scan reports (0..MaxCount)
MaxCount == 1
\* the longest configured style list
MaxStyles == 2

\* the invocations of main(), each an operating-system process of its own
Procs == {"p1", "p2"}

\* a run killed before the behaviour starts, whose run.lock stayed behind
StalePid == "p0"

(***************************************************************************)
(* Optional values: None is the empty sequence, a value v is <<v>>.        *)
(***************************************************************************)
None == << >>
Some(v) == <<v>>

(***************************************************************************)
(* The step registry (main.steps): key, marker file name ("" for           *)
(* marker=None), always_run, and whether the step has a builder.           *)
(***************************************************************************)
\* a registry entry that gets a checkpoint file whatever it declares
Step_marked(key, builder, marker, always_run) ==
  [key |-> key, builder |-> builder,
   marker |-> IF marker = "" THEN key ELSE marker, always_run |-> FALSE]

Step(key, builder, marker, always_run) ==
  [key |-> key, builder |-> builder, marker |-> marker, always_run |-> always_run]

steps ==
  << Step("ensure_repo", TRUE,  "",                      TRUE),
     Step("name_check",  TRUE,  "name_check.done.json",  FALSE),
     Step("missing",     TRUE,  "missing.done.json",     FALSE),
     Step("tmdb",        TRUE,  "tmdb.done.json",        FALSE),
     Step("truncate",    TRUE,  "truncate.done.json",    FALSE),
     Step("missing_dir", TRUE,  "missing_dir.done.json", FALSE),
     Step("prep_dirs",   TRUE,  "prep_dirs.done.json",   FALSE),
     Step("remove_bg",   TRUE,  "remove_bg.done.json",   FALSE),
     Step("poster_ps1",  TRUE,  "poster_ps1.done.json",  FALSE),
     Step("update",      TRUE,  "",                      TRUE),
     Step("sync_images", TRUE,  "sync_images.done.json", FALSE),
     Step("readme",      FALSE, "readme.done.json",      FALSE),
     Step("sync_md",     FALSE, "sync_md.done.json",     FALSE),
     Step("push",        TRUE,  "",                      TRUE) >>

StepIdx == 1..Len(steps)

Keys == {steps[n].key : n \in StepIdx}

\* step_index = {s.key: i for i, s in enumerate(steps)}, 1-based here
step_index(key) == CHOOSE n \in StepIdx : steps[n].key = key

\* The checkpoint file of key k is STATE_DIR/<k>.done.json: the files are
\* named by their key.  A file's content is the set of the keys of the JSON
\* object written; the empty set stands for "no such file".
Absent == {}

\* Step.marker_path: the key naming the file, None when marker is None
marker_path(s) == IF s.marker = "" THEN None ELSE Some(s.key)

(***************************************************************************)
(* Log files of the child tools.  A log is a file that may not exist and   *)
(* holds lines; a line is classified by the phrase the orchestrator's      *)
(* regular expressions look for, with the number n printed in it:          *)
(*   "items"      "<n> items|people|names|downloads|moved|copied"          *)
(*   "nothing"    "no items", "nothing to do", ...                         *)
(*   "total"      "total: <n>", "processed: <n>", "copied: <n>"            *)
(*   "summary"    "Summary: processed=<n>"                                 *)
(*   "processed"  "processed=<n>" without the Summary prefix               *)
(*   "files"      "Files processed: <n>"                                   *)
(*   "copied"     "copied=<n>"                                             *)
(*   "other"      none of these                                            *)
(***************************************************************************)
Line(kind, n) == [kind |-> kind, n |-> n]
NoFile == [exists |-> FALSE, lines |-> << >>]
File(lines) == [exists |-> TRUE, lines |-> lines]

RECURSIVE FirstMatch(_, _)
\* re.search over the text: the number of the first line of one of the kinds
FirstMatch(lines, kinds) ==
  IF lines = << >> THEN None
  ELSE IF Head(lines).kind \in kinds THEN Some(Head(lines).n)
  ELSE FirstMatch(Tail(lines), kinds)

RECURSIVE SumKind(_, _)
SumKind(lines, kind) ==
  IF lines = << >> THEN 0
  ELSE (IF Head(lines).kind = kind THEN Head(lines).n ELSE 0)
       + SumKind(Tail(lines), kind)

ZeroLine(l) ==
  \/ l.kind \in {"items", "summary", "files"} /\ l.n = 0
  \/ l.kind = "nothing"

NonzeroLine(l) ==
  l.kind \in {"items", "total", "summary", "files"} /\ l.n >= 1

\* Optional[bool]: Some(TRUE) zero work, Some(FALSE) more than zero, None unknown
parse_zero_from_log(logfile) ==
  IF ~logfile.exists THEN None
  ELSE IF \E n \in 1..Len(logfile.lines) : NonzeroLine(logfile.lines[n])
       THEN Some(FALSE)
  ELSE IF \E n \in 1..Len(logfile.lines) : ZeroLine(logfile.lines[n])
       THEN Some(TRUE)
  ELSE None

sum_copied_from_sync_log(logfile) ==
  IF ~logfile.exists THEN None
  ELSE IF \E n \in 1..Len(logfile.lines) : logfile.lines[n].kind = "copied"
       THEN Some(SumKind(logfile.lines, "copied"))
  ELSE IF \E n \in 1..Len(logfile.lines) :
            logfile.lines[n].kind = "copied" /\ logfile.lines[n].n = 0
       THEN Some(0)
  ELSE None

parsed_processed_from_missing_dir(logfile) ==
  IF ~logfile.exists THEN None
  ELSE IF FirstMatch(logfile.lines, {"summary"}) # None
       THEN FirstMatch(logfile.lines, {"summary"})
  ELSE FirstMatch(logfile.lines, {"summary", "processed"})

parsed_files_processed_from_remove_bg(logfile) ==
  IF ~logfile.exists THEN None
  ELSE FirstMatch(logfile.lines, {"files"})

\* count_recent_files(paths, since, suffixes): the bases that are set and
\* exist are scanned; recent is the number of matching recent files there
count_recent_files(paths_ok, recent) == IF paths_ok THEN recent ELSE 0


(***************************************************************************)
(* Inputs.                                                                 *)
(***************************************************************************)
\* argparse result: "" is an option that was not given (None and "" are
\* both falsy where the code tests them)
FromKeys == {"", "bogus", "tmdb", "readme"}
RedoKeys == {"", "bogus", "tmdb", "readme"}

\* the command lines tried: every combination of --force, --list, --from and
\* --redo over the keys above, and --redo with each key of the registry when
\* it is the only option
CliArgs ==
  [force : BOOLEAN, from_key : FromKeys, redo : RedoKeys, list : BOOLEAN]
  \cup [force : {FALSE}, from_key : {""}, redo : Keys, list : {FALSE}]

\* returncode of a child: success, failure, and run_cmd's FileNotFoundError code
ChildCodes == {0, 1, 127}

\* CATEGORY_DIRS, the styles a style list is drawn from
StyleNames == <<"bw", "diiivoy", "diiivoycolor", "rainier", "original", "signature", "transparent">>
StyleLists == {SubSeq(StyleNames, 1, n) : n \in 1..MaxStyles}

Counts == 0..MaxCount

\* log fixtures: no file, an empty or unrelated text, texts of one line, and
\* the given texts of two lines
LogsOf(lines, pairs) ==
  {NoFile, File(<< >>)}
  \cup {File(<<l>>) : l \in lines}
  \cup {File(<<pr[1], pr[2]>>) : pr \in pairs}

\* name_checker_dir.log, get_missing_people.log, prep_people_dirs.log
ItemLogs ==
  LET counts == {Line("items", n) : n \in Counts}
  IN LogsOf(counts \cup {Line("nothing", 0)},
            {pr \in counts \X counts : pr[1].n < pr[2].n})

\* get_missing_people_dir.log
MissingDirLogs ==
  LogsOf({Line(k, n) : k \in {"summary", "processed"}, n \in Counts},
         {<<Line("processed", n), Line("summary", m)>> : n, m \in Counts})

\* sel_remove_bg.log
RemoveBgLogs == LogsOf({Line("files", n) : n \in Counts}, {})

\* sync_people_images.log: one "copied=<n>" per category
SyncLogs ==
  LET copied == {Line("copied", n) : n \in Counts}
  IN LogsOf(copied, {pr \in copied \X copied : pr[1].n <= pr[2].n})

(***************************************************************************)
(* What one pass of the run loop reads from outside the orchestrator:      *)
(*   pre       the builder's precondition (logs dir / TMDB_KEY / repo root)*)
(*   tool      ps_exe() found a PowerShell                                 *)
(*   required  ORCH_REQUIRE_POWERSHELL / ORCH_REQUIRE_BG_OUTPUT            *)
(*   dir_set   bg_output_dir is set                                        *)
(*   dir_ok    the directory scanned after the step exists (for            *)
(*             ensure_repo: a category directory exists under the repo)    *)
(*   cont      continue_if_empty                                           *)
(*   rc        the child's return code                                     *)
(*   log       the child's log file after it ran                           *)
(*   recent    recent matching files in the scanned directory              *)
(*   styles    the configured style list                                   *)
(*   fail_at   the first style whose invocation fails (0: none)            *)
(***************************************************************************)
NoInput ==
  [key |-> "", pre |-> TRUE, tool |-> TRUE, required |-> FALSE, dir_set |-> TRUE,
   dir_ok |-> TRUE, cont |-> FALSE, rc |-> 0, log |-> NoFile, recent |-> 0,
   styles |-> << >>, fail_at |-> 0]

\* the builder dies, or the child fails: nothing else is read
Failing(key) ==
  {[NoInput EXCEPT !.key = key, !.rc = c] : c \in ChildCodes \ {0}}

PreFailing(key) == {[NoInput EXCEPT !.key = key, !.pre = FALSE]}

Inputs(key) ==
  CASE key = "ensure_repo" ->
         Failing(key) \cup
         {[NoInput EXCEPT !.key = key, !.pre = a, !.dir_ok = b] : a, b \in BOOLEAN}
    [] key \in {"name_check", "missing"} ->
         Failing(key) \cup PreFailing(key) \cup
         {[NoInput EXCEPT !.key = key, !.log = l] : l \in ItemLogs}
    [] key = "tmdb" ->
         Failing(key) \cup PreFailing(key) \cup
         {[NoInput EXCEPT !.key = key, !.recent = n] : n \in Counts}
    [] key = "truncate" ->
         Failing(key) \cup {[NoInput EXCEPT !.key = key]}
    [] key = "missing_dir" ->
         Failing(key) \cup
         {[NoInput EXCEPT !.key = key, !.log = l] : l \in MissingDirLogs}
    [] key = "prep_dirs" ->
         Failing(key) \cup
         {[NoInput EXCEPT !.key = key, !.dir_ok = FALSE, !.log = l] : l \in ItemLogs} \cup
         {[NoInput EXCEPT !.key = key, !.recent = n, !.log = l] :
            n \in Counts, l \in ItemLogs}
    [] key = "remove_bg" ->
         Failing(key) \cup
         {[NoInput EXCEPT !.key = key, !.required = r, !.dir_set = FALSE,
                          !.dir_ok = FALSE, !.cont = c, !.log = l] :
            r \in BOOLEAN, c \in BOOLEAN, l \in RemoveBgLogs} \cup
         {[NoInput EXCEPT !.key = key, !.dir_ok = FALSE, !.cont = c, !.log = l] :
            c \in BOOLEAN, l \in RemoveBgLogs} \cup
         {[NoInput EXCEPT !.key = key, !.recent = n, !.cont = c, !.log = l] :
            n \in Counts, c \in BOOLEAN, l \in RemoveBgLogs}
    [] key = "poster_ps1" ->
         Failing(key) \cup
         {[NoInput EXCEPT !.key = key, !.tool = t, !.required = r] : t, r \in BOOLEAN}
    [] key = "sync_images" ->
         Failing(key) \cup PreFailing(key) \cup
         {[NoInput EXCEPT !.key = key, !.log = l] : l \in SyncLogs}
    [] key \in {"readme", "sync_md"} ->
         {[NoInput EXCEPT !.key = key, !.styles = st] : st \in StyleLists} \cup
         {[NoInput EXCEPT !.key = key, !.styles = st, !.fail_at = f, !.pre = FALSE] :
            st \in StyleLists, f \in 1..MaxStyles} \cup
         {[NoInput EXCEPT !.key = key, !.styles = st, !.fail_at = f, !.rc = c] :
            st \in StyleLists, f \in 1..MaxStyles, c \in ChildCodes \ {0}}
    [] OTHER ->
         Failing(key) \cup PreFailing(key) \cup {[NoInput EXCEPT !.key = key]}


(***************************************************************************)
(* One pass of the run loop as a function of what it reads.                *)
(***************************************************************************)
\* builders that find every tool and every path
builder_always_argv(key, in) == "argv"

\* builders that test no precondition but the presence of PowerShell
builder_unchecked(key, in) ==
  IF key = "poster_ps1" /\ ~in.tool /\ ~in.required THEN "none" ELSE "argv"

\* the step builders: "die" is sys.exit(2), "none" is a builder returning
\* None, "argv" a command to run
builder(key, in) ==
  CASE key \in {"name_check", "missing"} -> IF in.pre THEN "argv" ELSE "die"
    [] key = "tmdb" -> IF in.pre THEN "argv" ELSE "die"
    [] key = "remove_bg" -> IF in.required /\ ~in.dir_set THEN "die" ELSE "argv"
    [] key = "poster_ps1" ->
         IF ~in.tool THEN (IF in.required THEN "die" ELSE "none") ELSE "argv"
    [] key \in {"update", "sync_images", "push"} -> IF in.pre THEN "argv" ELSE "die"
    [] OTHER -> "argv"

\* post-step checks that stop the run on "no count parsed" instead of on 0
post_check_on_none(key, in) ==
  CASE key = "ensure_repo" ->
         IF ~in.pre THEN "die" ELSE IF ~in.dir_ok THEN "die" ELSE "continue"
    [] key = "missing_dir" ->
         IF parsed_processed_from_missing_dir(in.log) = None THEN "stop" ELSE "continue"
    [] key = "sync_images" ->
         IF sum_copied_from_sync_log(in.log) = None THEN "stop" ELSE "continue"
    [] OTHER -> "continue"

\* post-step checks in which remove_bg does not look at continue_if_empty
post_check_bg_no_cont(key, in) ==
  IF key = "remove_bg"
       /\ count_recent_files(in.dir_set /\ in.dir_ok, in.recent) = 0
       /\ parsed_files_processed_from_remove_bg(in.log) \in {None, Some(0)}
  THEN "stop" ELSE "continue"

\* the post-step checks after a child that returned 0: "die" is sys.exit(2),
\* "stop" is sys.exit(0), "continue" falls through to the checkpoint write
post_check(key, in) ==
  CASE key = "ensure_repo" ->
         IF ~in.pre THEN "die" ELSE IF ~in.dir_ok THEN "die" ELSE "continue"
    [] key \in {"name_check", "missing"} ->
         IF parse_zero_from_log(in.log) = Some(TRUE) THEN "stop" ELSE "continue"
    [] key = "tmdb" ->
         IF count_recent_files(TRUE, in.recent) = 0 THEN "stop" ELSE "continue"
    [] key = "missing_dir" ->
         IF parsed_processed_from_missing_dir(in.log) = Some(0) THEN "stop" ELSE "continue"
    [] key = "prep_dirs" ->
         IF count_recent_files(in.dir_ok, in.recent) = 0
            /\ parse_zero_from_log(in.log) = Some(TRUE)
         THEN "stop" ELSE "continue"
    [] key = "remove_bg" ->
         IF in.required /\ ~in.dir_set THEN "die"
         ELSE IF count_recent_files(in.dir_set /\ in.dir_ok, in.recent) = 0 /\ ~in.cont
                 /\ parsed_files_processed_from_remove_bg(in.log) \in {None, Some(0)}
         THEN "stop" ELSE "continue"
    [] key = "sync_images" ->
         IF sum_copied_from_sync_log(in.log) = Some(0) THEN "stop" ELSE "continue"
    [] OTHER -> "continue"

\* what a pass of the loop does: the run_cmd calls it makes, the checkpoint
\* content it writes (Absent: none) and how it ends: code is None when the loop
\* goes on to the next step, Some(n) for sys.exit(n)
Pass(launches, meta, code, outcome) ==
  [launches |-> launches, meta |-> meta, code |-> code, outcome |-> outcome]

Launch(key, style) == [key |-> key, style |-> style]

\* the run_cmd calls for the first n styles, last style first
Launches_reversed(key, styles, n) ==
  [j \in 1..n |-> [key |-> key, style |-> styles[n + 1 - j]]]

RECURSIVE Launches(_, _, _)
\* the run_cmd calls for the first n styles, in order
Launches(key, styles, n) ==
  IF n = 0 THEN << >>
  ELSE Append(Launches(key, styles, n - 1), Launch(key, styles[n]))

\* a failure that exits with status 1 whatever the child returned
on_failure_exit1(launches, rc) == Pass(launches, Absent, Some(1), "step_failed")

\* "if rc != 0: ... sys.exit(rc)": the run ends with the child's return code
on_failure(launches, rc) == Pass(launches, Absent, Some(rc), "step_failed")

\* a checkpoint without its timestamp
checkpoint_no_time(s, meta) ==
  IF marker_path(s) # None /\ ~s.always_run THEN meta \ {"at"} ELSE Absent

\* the checkpoint written unless the step is always_run or has no marker
checkpoint(s, meta) ==
  IF marker_path(s) # None /\ ~s.always_run THEN meta ELSE Absent

\* readme and sync_md: one command per style, in order
multi_style(s, in) ==
  LET n == Len(in.styles)
      f == in.fail_at
  IN IF f = 0 \/ f > n
     THEN Pass(Launches(s.key, in.styles, n),
               IF marker_path(s) # None THEN {"at", "styles"} ELSE Absent,
               None, "running")
     ELSE IF ~in.pre
     THEN Pass(Launches(s.key, in.styles, f - 1), Absent,
               Some(2), "config")
     ELSE on_failure(Launches(s.key, in.styles, f), in.rc)

normal_step(s, in) ==
  IF ~s.builder THEN Pass(<< >>, Absent, Some(2), "config")
  ELSE IF builder(s.key, in) = "die" THEN Pass(<< >>, Absent, Some(2), "config")
  ELSE IF builder(s.key, in) = "none"
  THEN IF s.key = "poster_ps1"
       THEN Pass(<< >>, IF marker_path(s) # None THEN {"skipped", "at"} ELSE Absent,
                 None, "running")
       ELSE Pass(<< >>, Absent, Some(2), "config")
  ELSE IF in.rc # 0 THEN on_failure(<<Launch(s.key, "")>>, in.rc)
  ELSE IF post_check(s.key, in) = "die"
  THEN Pass(<<Launch(s.key, "")>>, Absent, Some(2), "config")
  ELSE IF post_check(s.key, in) = "stop"
  THEN Pass(<<Launch(s.key, "")>>, Absent, Some(0), "early_stop")
  ELSE Pass(<<Launch(s.key, "")>>, checkpoint(s, {"at", "argv"}), None, "running")

loop_body(s, in) ==
  IF s.key \in {"readme", "sync_md"} THEN multi_style(s, in) ELSE normal_step(s, in)

(***************************************************************************)
(* Checkpoint store and start-point resolution.                            *)
(***************************************************************************)
marker_exists(dir, marker) == marker # None /\ dir[marker[1]] # Absent

\* the files under STATE_DIR that write_marker touches: done holds the
\* checkpoint files <key>.done.json, tmp the files <key>.done.json.tmp
Files(done, tmp) == [done |-> done, tmp |-> tmp]

\* a write_text that goes to the checkpoint file itself
tmp_write_in_place(files, marker, meta) ==
  [files EXCEPT !.done = [@ EXCEPT ![marker[1]] = meta]]

\* lines 153-154: tmp = marker.with_suffix(marker.suffix + ".tmp"); tmp.write_text
tmp_write(files, marker, meta) ==
  [files EXCEPT !.tmp = [@ EXCEPT ![marker[1]] = meta]]

\* line 155: tmp.replace(marker), one rename
tmp_replace(files, marker) ==
  Files([files.done EXCEPT ![marker[1]] = files.tmp[marker[1]]],
        [files.tmp EXCEPT ![marker[1]] = Absent])

\* write_marker(marker, meta)
write_marker(files, marker, meta) ==
  tmp_replace(tmp_write(files, marker, meta), marker)

\* the content of a file whose write_text was cut short
Partial == {"{"}

\* --list, lines 491-493, with every step that is not DONE reported PENDING
list_status_no_always(dir, s) ==
  IF marker_exists(dir, marker_path(s)) THEN "DONE" ELSE "PENDING"

\* --list, lines 491-493: the status printed for a step
list_status(dir, s) ==
  IF s.always_run THEN "ALWAYS"
  ELSE IF marker_exists(dir, marker_path(s)) THEN "DONE" ELSE "PENDING"

\* --list, lines 494-497: the key printed as next step, "" when none is
list_next(dir) ==
  LET hits == {n \in StepIdx : steps[n].always_run
                               \/ ~marker_exists(dir, marker_path(steps[n]))}
  IN IF hits = {} THEN ""
     ELSE steps[CHOOSE n \in hits : \A m \in hits : n <= m].key

\* what --list prints
listing(dir) ==
  [status |-> [k \in Keys |-> list_status(dir, steps[step_index(k)])],
   next |-> list_next(dir)]

NoListing == [status |-> [k \in Keys |-> ""], next |-> ""]

\* a command line on which --list is not looked at
after_parse_run(a) == "redo"

\* where main() goes after parse_args: "if args.list:" (line 489) comes before
\* "if args.redo:" (line 502)
after_parse(a) == IF a.list THEN "list" ELSE "redo"

RECURSIVE clear_loop(_, _, _, _)
clear_loop(dir, step_keys, from_key, do_clear) ==
  IF step_keys = << >> THEN dir
  ELSE LET k == Head(step_keys)
           clearing == do_clear \/ k = from_key
       IN clear_loop(IF clearing THEN [dir EXCEPT ![k] = Absent] ELSE dir,
                     Tail(step_keys), from_key, clearing)

\* a clear_from whose do_clear starts out True
clear_from_all(dir, step_keys, from_key) == clear_loop(dir, step_keys, from_key, TRUE)

\* a --redo that leaves a checkpoint file for from_key behind
clear_from_marking(dir, step_keys, from_key) ==
  [k \in DOMAIN dir |-> IF k = from_key THEN {"at"} ELSE dir[k]]

\* clear_from(step_keys, from_key) on the checkpoint files dir
clear_from(dir, step_keys, from_key) == clear_loop(dir, step_keys, from_key, FALSE)

\* list(step_index.keys())
step_keys_list == [n \in StepIdx |-> steps[n].key]

\* a scan that stops at the first step without a checkpoint file and passes
\* over the always_run steps
resume_scan_pending(dir) ==
  LET hits == {n \in StepIdx : ~steps[n].always_run
                               /\ ~marker_exists(dir, marker_path(steps[n]))}
  IN IF hits = {} THEN 1 ELSE CHOOSE n \in hits : \A m \in hits : n <= m

\* for i, s in enumerate(steps): if s.always_run or not marker_exists(...): break
resume_scan(dir) ==
  LET hits == {n \in StepIdx : steps[n].always_run
                               \/ ~marker_exists(dir, marker_path(steps[n]))}
  IN IF hits = {} THEN 1 ELSE CHOOSE n \in hits : \A m \in hits : n <= m

\* a start index that is the first step whatever the options
compute_start_first(a, dir) == Some(1)

\* a start index that does not look at --from
compute_start_scan(a, dir) == IF a.force THEN Some(1) ELSE Some(resume_scan(dir))

\* a start index for which --from is tested before --force
compute_start_from_first(a, dir) ==
  IF a.from_key # ""
  THEN (IF a.from_key \in Keys THEN Some(step_index(a.from_key)) ELSE None)
  ELSE IF a.force THEN Some(1)
  ELSE Some(resume_scan(dir))

\* "Compute start index": None is sys.exit(2) for an unknown --from key
compute_start(a, dir) ==
  IF a.force THEN Some(1)
  ELSE IF a.from_key # ""
  THEN (IF a.from_key \in Keys THEN Some(step_index(a.from_key)) ELSE None)
  ELSE Some(resume_scan(dir))


(***************************************************************************)
(* State.                                                                  *)
(***************************************************************************)
VARIABLES
  state_dir,   \* checkpoint files under STATE_DIR: key -> content (Absent: no file)
  lock_file,   \* run.lock: the set holding the pid written in it, {} when no file
  pc,          \* where each process is in main()
  args,        \* its parsed command line
  start_i,     \* its start index
  idx,         \* the index of the step its run loop is at
  launched,    \* the run_cmd calls it made, in order
  obs,         \* what its last pass of the run loop read
  exit_code,   \* its exit status (read when pc is "exited")
  outcome,     \* how it ended
  at_start,    \* the checkpoint files as they were when it was invoked
  tmp_dir,     \* the .tmp files of write_marker under STATE_DIR: key -> content
  marked,      \* the write_marker calls it completed, in order
  printed,     \* what its --list printed
  lock_at_start \* run.lock as it was when it was invoked

vars == <<state_dir, lock_file, pc, args, start_i, idx, launched, obs,
          exit_code, outcome, at_start, tmp_dir, marked, printed, lock_at_start>>

NoArgs == [force |-> FALSE, from_key |-> "", redo |-> "", list |-> FALSE]

\* the content of the checkpoint the run loop writes for a step that ran
content(s) ==
  IF marker_path(s) = None \/ s.always_run THEN Absent
  ELSE IF s.key \in {"readme", "sync_md"} THEN {"at", "styles"}
  ELSE {"at", "argv"}

\* the checkpoint directories earlier runs leave behind: a run from the first
\* step that got through the first n steps and stopped there
LeftBehind ==
  {[k \in Keys |-> IF step_index(k) <= n THEN content(steps[step_index(k)]) ELSE Absent] :
     n \in 0..Len(steps)}

InitWith(dirs, locks) ==
  /\ state_dir \in dirs
  /\ lock_file \in locks
  /\ pc = [p \in Procs |-> "idle"]
  /\ args = [p \in Procs |-> NoArgs]
  /\ start_i = [p \in Procs |-> 1]
  /\ idx = [p \in Procs |-> 1]
  /\ launched = [p \in Procs |-> << >>]
  /\ obs = [p \in Procs |-> NoInput]
  /\ exit_code = [p \in Procs |-> 0]
  /\ outcome = [p \in Procs |-> "none"]
  /\ at_start = [p \in Procs |-> state_dir]
  /\ tmp_dir = [k \in Keys |-> Absent]
  /\ marked = [p \in Procs |-> << >>]
  /\ printed = [p \in Procs |-> NoListing]
  /\ lock_at_start = [p \in Procs |-> lock_file]

\* a checkpoint directory left by earlier runs; run.lock is absent, or was
\* left by a run that was killed
Init == InitWith(LeftBehind, {{}, {StalePid}})

(***************************************************************************)
(* The run lock.                                                           *)
(***************************************************************************)
\* an existence test that never sees run.lock
lock_exists_never(lf) == FALSE

\* LOCK_FILE.exists()
lock_exists(lf) == lf # {}

\* a release that leaves the file in place
release_lock_kept(lf) == lf

\* release_lock(): the file is unlinked if it exists, whoever wrote it
release_lock(lf) == IF lock_exists(lf) THEN {} ELSE lf

\* an exit that always reports success
Exit_zero(p, code, how) ==
  /\ pc' = [pc EXCEPT ![p] = "exited"]
  /\ exit_code' = [exit_code EXCEPT ![p] = 0]
  /\ outcome' = [outcome EXCEPT ![p] = how]

\* sys.exit(code) or return outside the try block
Exit(p, code, how) ==
  /\ pc' = [pc EXCEPT ![p] = "exited"]
  /\ exit_code' = [exit_code EXCEPT ![p] = code]
  /\ outcome' = [outcome EXCEPT ![p] = how]

\* sys.exit(code), an exception or the end of the try block, lines 528 and
\* 664-665: the finally clause releases the lock and the process exits
Unwind(p, code, how) ==
  /\ lock_file' = release_lock(lock_file)
  /\ Exit(p, code, how)

(***************************************************************************)
(* main(), lines 346-499: a new invocation parses its command line; with   *)
(* --list it prints the status and returns.                                *)
(***************************************************************************)
InvokeWith(p, choices) ==
  /\ pc[p] = "idle"
  /\ \E a \in choices :
       /\ args' = [args EXCEPT ![p] = a]
       /\ IF after_parse(a) = "list"
          THEN /\ printed' = [printed EXCEPT ![p] = listing(state_dir)]
               /\ Exit(p, 0, "listed")
          ELSE /\ pc' = [pc EXCEPT ![p] = "redo"]
               /\ outcome' = [outcome EXCEPT ![p] = "running"]
               /\ UNCHANGED <<exit_code, printed>>
  /\ at_start' = [at_start EXCEPT ![p] = state_dir]
  /\ lock_at_start' = [lock_at_start EXCEPT ![p] = lock_file]
  /\ UNCHANGED <<state_dir, lock_file, start_i, idx, launched, obs, tmp_dir, marked>>

Invoke(p) == InvokeWith(p, CliArgs)

\* "Handle --redo", lines 501-507
HandleRedo(p) ==
  /\ pc[p] = "redo"
  /\ IF args[p].redo # ""
     THEN IF args[p].redo \notin Keys
          THEN /\ Exit(p, 2, "bad_key")
               /\ UNCHANGED state_dir
          ELSE /\ state_dir' = clear_from(state_dir, step_keys_list, args[p].redo)
               /\ pc' = [pc EXCEPT ![p] = "start"]
               /\ UNCHANGED <<exit_code, outcome>>
     ELSE /\ pc' = [pc EXCEPT ![p] = "start"]
          /\ UNCHANGED <<state_dir, exit_code, outcome>>
  /\ UNCHANGED <<lock_file, args, start_i, idx, launched, obs, at_start,
                  tmp_dir, marked, printed, lock_at_start>>

\* "Compute start index", lines 509-523
ComputeStart(p) ==
  /\ pc[p] = "start"
  /\ LET st == compute_start(args[p], state_dir)
     IN IF st = None
        THEN /\ Exit(p, 2, "bad_key")
             /\ UNCHANGED start_i
        ELSE /\ start_i' = [start_i EXCEPT ![p] = st[1]]
             /\ pc' = [pc EXCEPT ![p] = "acquire"]
             /\ UNCHANGED <<exit_code, outcome>>
  /\ UNCHANGED <<state_dir, lock_file, args, idx, launched, obs, at_start,
                  tmp_dir, marked, printed, lock_at_start>>

\* acquire_lock(), lines 198-202: the existence test
AcquireCheck(p) ==
  /\ pc[p] = "acquire"
  /\ IF lock_exists(lock_file)
     THEN Exit(p, 3, "locked")
     ELSE /\ pc' = [pc EXCEPT ![p] = "lock_write"]
          /\ UNCHANGED <<exit_code, outcome>>
  /\ UNCHANGED <<state_dir, lock_file, args, start_i, idx, launched, obs, at_start,
                  tmp_dir, marked, printed, lock_at_start>>

\* acquire_lock(), line 203: the write; then the loop starts at steps[start_i]
AcquireWrite(p) ==
  /\ pc[p] = "lock_write"
  /\ lock_file' = {p}
  /\ pc' = [pc EXCEPT ![p] = "loop"]
  /\ idx' = [idx EXCEPT ![p] = start_i[p]]
  /\ UNCHANGED <<state_dir, args, start_i, launched, obs, exit_code, outcome, at_start,
                  tmp_dir, marked, printed, lock_at_start>>

(***************************************************************************)
(* The run loop, lines 530-661: one pass for the step at idx.              *)
(***************************************************************************)
\* a loop that takes the same step again
next_idx_same(i) == i

\* "for s in steps[start_i:]", line 530: the loop goes on to the next entry
next_idx(i) == i + 1

\* styles is resolved once, before the loop (lines 353-359): sync_md reads the
\* list the readme pass just before it read
SameStyles(last, in) ==
  (last.key = "readme" /\ in.key = "sync_md") => in.styles = last.styles

RunStep(p) ==
  /\ pc[p] = "loop"
  /\ idx[p] \in StepIdx
  /\ LET s == steps[idx[p]]
     IN \E in \in Inputs(s.key) :
          LET r == loop_body(s, in)
              f == IF r.meta # Absent
                   THEN write_marker(Files(state_dir, tmp_dir), marker_path(s), r.meta)
                   ELSE Files(state_dir, tmp_dir)
          IN /\ SameStyles(obs[p], in)
             /\ obs' = [obs EXCEPT ![p] = in]
             /\ launched' = [launched EXCEPT ![p] = @ \o r.launches]
             /\ state_dir' = f.done
             /\ tmp_dir' = f.tmp
             /\ marked' = [marked EXCEPT ![p] =
                             IF r.meta # Absent
                             THEN Append(@, [key |-> s.key, meta |-> r.meta])
                             ELSE @]
             /\ IF r.code = None
                THEN /\ idx' = [idx EXCEPT ![p] = next_idx(@)]
                     /\ UNCHANGED <<lock_file, pc, exit_code, outcome>>
                ELSE /\ Unwind(p, r.code[1], r.outcome)
                     /\ UNCHANGED idx
  /\ UNCHANGED <<args, start_i, at_start, printed, lock_at_start>>

\* line 663: the loop is exhausted
AllCompleted(p) ==
  /\ pc[p] = "loop"
  /\ idx[p] \notin StepIdx
  /\ Unwind(p, 0, "completed")
  /\ UNCHANGED <<state_dir, args, start_i, idx, launched, obs, at_start,
                  tmp_dir, marked, printed, lock_at_start>>

\* the exit status of the interpreter after an uncaught exception: 1, or 130
\* (death by SIGINT) after a KeyboardInterrupt
ExceptionCodes == {1, 130}

\* an exception raised inside the try block and caught nowhere (Ctrl-C while a
\* child runs: run_cmd catches Exception, which KeyboardInterrupt is not; an
\* OSError of write_marker): the pass is cut short, the finally clause runs
\* and the interpreter exits with a non-zero status
UncaughtException(p) ==
  /\ pc[p] = "loop"
  /\ idx[p] \in StepIdx
  /\ obs' = [obs EXCEPT ![p] = [NoInput EXCEPT !.key = steps[idx[p]].key]]
  /\ \E code \in ExceptionCodes : Unwind(p, code, "exception")
  /\ UNCHANGED <<state_dir, args, start_i, idx, launched, at_start,
                  tmp_dir, marked, printed, lock_at_start>>

\* the process is killed (SIGKILL, power loss) while a step runs: no finally
\* clause runs and run.lock stays behind
Kill(p) ==
  /\ pc[p] = "loop"
  /\ idx[p] \in StepIdx
  /\ pc' = [pc EXCEPT ![p] = "killed"]
  /\ outcome' = [outcome EXCEPT ![p] = "killed"]
  /\ obs' = [obs EXCEPT ![p] = [NoInput EXCEPT !.key = steps[idx[p]].key]]
  /\ UNCHANGED <<state_dir, lock_file, args, start_i, idx, launched, exit_code, at_start,
                  tmp_dir, marked, printed, lock_at_start>>

\* the process is killed inside write_marker, while tmp.write_text runs or
\* after it and before tmp.replace (lines 154-155): the step's commands have
\* run, the .tmp file holds a part or all of the content, no rename was made
CrashInWrite(p) ==
  /\ pc[p] = "loop"
  /\ idx[p] \in StepIdx
  /\ LET s == steps[idx[p]]
         passes == {loop_body(s, in) : in \in {i \in Inputs(s.key) : SameStyles(obs[p], i)}}
     IN \E r \in {x \in passes : x.meta # Absent} :
          /\ \E c \in {Partial, r.meta} :
               LET f == tmp_write(Files(state_dir, tmp_dir), marker_path(s), c)
               IN /\ state_dir' = f.done
                  /\ tmp_dir' = f.tmp
          /\ launched' = [launched EXCEPT ![p] = @ \o r.launches]
  /\ pc' = [pc EXCEPT ![p] = "killed"]
  /\ outcome' = [outcome EXCEPT ![p] = "killed_in_write"]
  /\ obs' = [obs EXCEPT ![p] = [NoInput EXCEPT !.key = steps[idx[p]].key]]
  /\ UNCHANGED <<lock_file, args, start_i, idx, exit_code, at_start,
                  marked, printed, lock_at_start>>

(***************************************************************************)
(* Specifications.                                                         *)
(*   Spec      one invocation, on a checkpoint directory left by earlier   *)
(*             runs                                                        *)
(*   SpecConc  two invocations started at about the same time on a fresh   *)
(*             STATE_DIR, their steps interleaved in any order             *)
(***************************************************************************)
Main == "p1"

Next ==
  \/ Invoke(Main)
  \/ HandleRedo(Main)
  \/ ComputeStart(Main)
  \/ AcquireCheck(Main)
  \/ AcquireWrite(Main)
  \/ RunStep(Main)
  \/ AllCompleted(Main)
  \/ UncaughtException(Main)
  \/ Kill(Main)
  \/ CrashInWrite(Main)

Spec == Init /\ [][Next]_vars


\* the command lines of the concurrent invocations: the last three steps are
\* run, with or without --redo and --list
ConcArgs ==
  [force : {FALSE}, from_key : {"readme"}, redo : {"", "readme"}, list : BOOLEAN]

InvokeConc(p) == InvokeWith(p, ConcArgs)

InitConc == InitWith({[k \in Keys |-> Absent]}, {{}})

NextConc ==
  \E p \in Procs :
    \/ InvokeConc(p)
    \/ HandleRedo(p)
    \/ ComputeStart(p)
    \/ AcquireCheck(p)
    \/ AcquireWrite(p)
    \/ RunStep(p)
    \/ AllCompleted(p)
    \/ UncaughtException(p)
    \/ Kill(p)
    \/ CrashInWrite(p)

SpecConc == InitConc /\ [][NextConc]_vars


\* an invocation that no signal and no exception cuts short: the operating
\* system keeps running the process and every child it waits for returns
NextRun ==
  \/ Invoke(Main)
  \/ HandleRedo(Main)
  \/ ComputeStart(Main)
  \/ AcquireCheck(Main)
  \/ AcquireWrite(Main)
  \/ RunStep(Main)
  \/ AllCompleted(Main)

\* the checkpoint directories it starts on: a fresh one, one left by a run
\* that stopped after name_check, and one left by a completed run
InitTerm ==
  InitWith({d \in LeftBehind : d["missing"] = Absent \/ d["sync_md"] # Absent},
           {{}, {StalePid}})

SpecTerm == InitTerm /\ [][NextRun]_vars /\ WF_vars(NextRun)

(***************************************************************************)
(* Vocabulary of the properties.                                           *)
(***************************************************************************)
\* no --from, --force, --redo or --list
Plain(a) == ~a.force /\ a.from_key = "" /\ a.redo = "" /\ ~a.list

\* a step whose completion is recorded in a checkpoint file
Checkpointed(n) == marker_path(steps[n]) # None /\ ~steps[n].always_run

Done(dir, n) == Checkpointed(n) /\ dir[steps[n].key] # Absent

\* the first step with a checkpoint file name that has no checkpoint in dir
FirstPending(dir) ==
  LET todo == {n \in StepIdx : Checkpointed(n) /\ ~Done(dir, n)}
  IN IF todo = {} THEN Len(steps) + 1 ELSE CHOOSE n \in todo : \A m \in todo : n <= m

\* the keys of the steps p launched a child for
LaunchedKeys(p) == {launched[p][j].key : j \in 1..Len(launched[p])}

\* p's last pass of the loop ran the step's child, which returned 0
ChildSucceeded(p) ==
  /\ launched[p] # << >>
  /\ launched[p][Len(launched[p])].key = obs[p].key
  /\ obs[p].rc = 0
  /\ obs[p].fail_at = 0

\* the lines of a log that carry a count for the step that wrote it
CountKinds(key) ==
  CASE key \in {"name_check", "missing", "prep_dirs"} -> {"items", "nothing"}
    [] key = "missing_dir" -> {"summary", "processed"}
    [] key = "remove_bg" -> {"files"}
    [] key = "sync_images" -> {"copied"}
    [] OTHER -> {}

CountLines(in) ==
  {j \in 1..Len(in.log.lines) : in.log.lines[j].kind \in CountKinds(in.key)}

\* the log exists, reports at least one count, and every count it reports is 0
ExplicitZero(in) ==
  /\ in.log.exists
  /\ CountLines(in) # {}
  /\ \A j \in CountLines(in) : in.log.lines[j].n = 0

\* the log is missing or reports no count
NoCount(in) == ~in.log.exists \/ CountLines(in) = {}

\* nothing tells that the step did no work: no count in the log and, for the
\* steps whose output directory is scanned, no directory to scan
NoZeroSignal(in) ==
  CASE in.key \in {"name_check", "missing", "missing_dir", "sync_images"} -> NoCount(in)
    [] in.key \in {"prep_dirs", "remove_bg"} ->
         NoCount(in) /\ ~(in.dir_set /\ in.dir_ok)
    [] OTHER -> FALSE

(***************************************************************************)
(* C1. Resume skips completed work: in a plain invocation that finds a     *)
(* checkpoint for every checkpointed step before step N and none for N, no *)
(* checkpointed step before N is executed.                                 *)
(***************************************************************************)
C1_ResumeSkipsCompleted ==
  \A p \in Procs :
    (Plain(args[p]) /\ FirstPending(at_start[p]) \in StepIdx) =>
      \A n \in StepIdx :
        (n < FirstPending(at_start[p]) /\ Done(at_start[p], n)) =>
          steps[n].key \notin LaunchedKeys(p)

(***************************************************************************)
(* C2. Resume idempotence: a plain invocation on the checkpoints of a run  *)
(* that completed (every checkpointed step has its checkpoint) executes    *)
(* only always_run steps.                                                  *)
(***************************************************************************)
C2_ResumeIdempotent ==
  \A p \in Procs :
    (Plain(args[p]) /\ FirstPending(at_start[p]) \notin StepIdx) =>
      \A n \in StepIdx :
        steps[n].key \in LaunchedKeys(p) => steps[n].always_run

(***************************************************************************)
(* C3. An invocation that finds the lock file present exits with status 3, *)
(* has executed no step and has left every checkpoint as it was, whatever  *)
(* its flags.                                                              *)
(***************************************************************************)
C3_LockedRunTouchesNothing ==
  \A p \in Procs :
    outcome[p] = "locked" =>
      /\ exit_code[p] = 3
      /\ launched[p] = << >>
      /\ state_dir = at_start[p]

(***************************************************************************)
(* C4. Mutual exclusion: at no time are two invocations both past          *)
(* acquire_lock and in the step-execution phase.                           *)
(***************************************************************************)
C4_MutualExclusion ==
  \A p, q \in Procs : (pc[p] = "loop" /\ pc[q] = "loop") => p = q

(***************************************************************************)
(* C5. Guaranteed release: once an invocation that acquired the lock has   *)
(* exited by normal completion, a step failure, an early stop, a           *)
(* configuration exit inside the loop or an uncaught exception, the lock   *)
(* file does not exist.                                                    *)
(***************************************************************************)
C5_LockReleasedOnExit ==
  \A p \in Procs :
    (pc[p] = "exited"
       /\ outcome[p] \in {"completed", "step_failed", "early_stop", "config", "exception"})
      => ~lock_exists(lock_file)

C5_Witness ==
  \E p \in Procs :
    /\ pc[p] = "exited"
    /\ outcome[p] = "exception"
    /\ idx[p] > start_i[p]
    /\ ~lock_exists(lock_file)

(***************************************************************************)
(* C6. After a confident-zero early stop at step S, the checkpoint of S    *)
(* exists and no step after S was executed.                                *)
(***************************************************************************)
C6_EarlyStopCheckpointed ==
  \A p \in Procs :
    (pc[p] = "exited" /\ outcome[p] = "early_stop") =>
      /\ state_dir[obs[p].key] # Absent
      /\ \A n \in StepIdx :
           n > step_index(obs[p].key) => steps[n].key \notin LaunchedKeys(p)

(***************************************************************************)
(* C7. Conservative early exit: a run never stops early at a step whose    *)
(* zero signal is absent (log missing or without a count, no directory     *)
(* scanned).                                                               *)
(***************************************************************************)
C7_NoStopWithoutSignal ==
  \A p \in Procs :
    outcome[p] = "early_stop" => ~NoZeroSignal(obs[p])

(***************************************************************************)
(* C8 as stated. Whenever the log of a step that ran reports only zero     *)
(* counts, the run stops there with exit code 0.                           *)
(***************************************************************************)
C8_Original_ExplicitZeroStops ==
  \A p \in Procs :
    (ChildSucceeded(p) /\ ExplicitZero(obs[p])) =>
      /\ pc[p] = "exited"
      /\ outcome[p] = "early_stop"
      /\ exit_code[p] = 0

\* at prep_dirs and remove_bg the log is only read when the directory scan
\* counted no recent file, and remove_bg goes on under continue_if_empty
ScanAgrees(in) ==
  CASE in.key = "prep_dirs" -> count_recent_files(in.dir_ok, in.recent) = 0
    [] in.key = "remove_bg" ->
         count_recent_files(in.dir_set /\ in.dir_ok, in.recent) = 0 /\ ~in.cont
    [] OTHER -> TRUE

(***************************************************************************)
(* C8 as amended. Whenever the log of a step that ran reports only zero    *)
(* counts (and, at prep_dirs and remove_bg, the directory scan counted no  *)
(* recent file and, at remove_bg, continue-if-empty is off), the run stops *)
(* there with exit code 0 and the step is the last one executed.           *)
(***************************************************************************)
C8_ExplicitZeroStops ==
  \A p \in Procs :
    (ChildSucceeded(p) /\ ExplicitZero(obs[p]) /\ ScanAgrees(obs[p])) =>
      /\ pc[p] = "exited"
      /\ outcome[p] = "early_stop"
      /\ exit_code[p] = 0
      /\ \A n \in StepIdx :
           n > step_index(obs[p].key) => steps[n].key \notin LaunchedKeys(p)

C8_Witness ==
  \E p \in Procs :
    /\ pc[p] = "exited"
    /\ outcome[p] = "early_stop"
    /\ obs[p].key = "sync_images"
    /\ obs[p].log = File(<<Line("copied", 0), Line("copied", 0)>>)
    /\ "update" \in LaunchedKeys(p)
    /\ "push" \notin LaunchedKeys(p)

(***************************************************************************)
(* C9. Redo monotonicity: once --redo K is handled, no checkpoint of K or  *)
(* of a later step exists, and the checkpoint of every step before K is as *)
(* it was.                                                                 *)
(***************************************************************************)
C9_RedoClearsDownstream ==
  \A p \in Procs :
    (pc[p] \in {"start", "acquire", "lock_write"} /\ args[p].redo \in Keys) =>
      \A n \in StepIdx :
        IF n >= step_index(args[p].redo)
        THEN state_dir[steps[n].key] = Absent
        ELSE state_dir[steps[n].key] = at_start[p][steps[n].key]

C9_Witness ==
  \E p \in Procs :
    /\ pc[p] = "start"
    /\ args[p].redo = "prep_dirs"
    /\ at_start[p]["prep_dirs"] # Absent
    /\ at_start[p]["sync_md"] # Absent
    /\ state_dir["sync_md"] = Absent
    /\ state_dir["missing_dir"] # Absent

(***************************************************************************)
(* C10. With --redo K and neither --from nor --force, the first step       *)
(* executed is K.                                                          *)
(***************************************************************************)
C10_RedoStartsAtKey ==
  \A p \in Procs :
    (args[p].redo \in Keys /\ args[p].from_key = "" /\ ~args[p].force
       /\ ~args[p].list /\ launched[p] # << >>) =>
      launched[p][1].key = args[p].redo

(***************************************************************************)
(* Vocabulary of the properties on the order of execution.                 *)
(***************************************************************************)
\* the registry index of the step of p's j-th command
LaunchIdx(p, j) == step_index(launched[p][j].key)

\* the keys p wrote a checkpoint for
MarkedKeys(p) == {marked[p][j].key : j \in 1..Len(marked[p])}

\* p recorded the step as skipped
Skipped(p, key) ==
  \E j \in 1..Len(marked[p]) : marked[p][j].key = key /\ "skipped" \in marked[p][j].meta

\* p's start index is resolved
Started(p) ==
  \/ pc[p] \in {"acquire", "lock_write", "loop", "killed"}
  \/ pc[p] = "exited" /\ outcome[p] \notin {"listed", "bad_key"}

\* the checkpoint files as --redo left them before p computed its start index
BeforeRun(p) ==
  IF args[p].redo \in Keys
  THEN [k \in Keys |-> IF step_index(k) >= step_index(args[p].redo)
                        THEN Absent ELSE at_start[p][k]]
  ELSE at_start[p]

\* p's commands follow the registry order: a later command never belongs to
\* an earlier step, and a step has more than one command only if it is a
\* multi-style step running one command per style
Forward(p) ==
  \A j \in 2..Len(launched[p]) :
    /\ LaunchIdx(p, j - 1) <= LaunchIdx(p, j)
    /\ launched[p][j - 1].key = launched[p][j].key =>
         /\ launched[p][j].key \in {"readme", "sync_md"}
         /\ launched[p][j - 1].style # launched[p][j].style

\* no step from the start index up to the step the loop is at is left out,
\* but for poster_ps1 recorded as skipped
NoGap(p) ==
  LET ran == LaunchedKeys(p)
  IN \A n \in start_i[p]..(idx[p] - 1) :
       steps[n].key \in ran \/ Skipped(p, steps[n].key)

(***************************************************************************)
(* C11 as stated. In every run, whatever the flags, the steps are executed *)
(* in increasing registry order, each at most once and none left out in    *)
(* between, and with --from K no step before K is executed.                *)
(***************************************************************************)
C11_Original_FixedOrder ==
  \A p \in Procs :
    /\ Forward(p)
    /\ NoGap(p)
    /\ args[p].from_key \in Keys =>
         \A j \in 1..Len(launched[p]) : LaunchIdx(p, j) >= step_index(args[p].from_key)

(***************************************************************************)
(* C11 as amended. In every run, whatever the flags, the steps are         *)
(* executed in increasing registry order, each at most once and none left  *)
(* out in between, and with --from K and without --force no step before K *)
(* is executed.                                                            *)
(***************************************************************************)
C11_FixedOrder ==
  \A p \in Procs :
    /\ Forward(p)
    /\ NoGap(p)
    /\ \A j \in 1..Len(launched[p]) : LaunchIdx(p, j) >= start_i[p]
    /\ (args[p].from_key \in Keys /\ ~args[p].force) =>
         \A j \in 1..Len(launched[p]) : LaunchIdx(p, j) >= step_index(args[p].from_key)

C11_Witness ==
  \E p \in Procs :
    /\ args[p].from_key = "readme"
    /\ ~args[p].force
    /\ pc[p] = "exited"
    /\ outcome[p] = "completed"
    /\ Len(launched[p]) = 2 * MaxStyles + 1

(***************************************************************************)
(* C12. --from K starts the run at step K whether or not K or a later step *)
(* has a checkpoint, and when step K begins every checkpoint file is as it *)
(* was before the run.                                                     *)
(***************************************************************************)
C12_FromStartsAtKey ==
  \A p \in Procs :
    (args[p].from_key \in Keys /\ ~args[p].force /\ ~args[p].list /\ Started(p)) =>
      /\ start_i[p] = step_index(args[p].from_key)
      /\ \A j \in 1..Len(launched[p]) : LaunchIdx(p, j) >= step_index(args[p].from_key)
      /\ (launched[p] # << >> /\ ~Skipped(p, args[p].from_key)) =>
           launched[p][1].key = args[p].from_key
      /\ (pc[p] = "loop" /\ idx[p] = start_i[p]) => state_dir = BeforeRun(p)
      /\ args[p].redo = "" => BeforeRun(p) = at_start[p]

C12_Witness ==
  \E p \in Procs :
    /\ args[p].from_key = "tmdb"
    /\ ~args[p].force
    /\ args[p].redo = ""
    /\ at_start[p]["tmdb"] # Absent
    /\ at_start[p]["remove_bg"] # Absent
    /\ pc[p] = "loop"
    /\ idx[p] = start_i[p]
    /\ state_dir = at_start[p]

(***************************************************************************)
(* C13. --force starts at the first registry entry and executes every step *)
(* in order whatever checkpoints exist, also when --from K is given.       *)
(***************************************************************************)
C13_ForceStartsAtFirst ==
  \A p \in Procs :
    (args[p].force /\ ~args[p].list /\ Started(p)) =>
      /\ start_i[p] = 1
      /\ launched[p] # << >> => launched[p][1].key = steps[1].key
      /\ LET ran == LaunchedKeys(p)
         IN \A n \in 1..(idx[p] - 1) :
              steps[n].key \in ran \/ Skipped(p, steps[n].key)

C13_Witness ==
  \E p \in Procs :
    /\ args[p].force
    /\ args[p].from_key = "tmdb"
    /\ at_start[p]["name_check"] # Absent
    /\ at_start[p]["tmdb"] # Absent
    /\ idx[p] > step_index("tmdb")
    /\ {"name_check", "tmdb"} \subseteq LaunchedKeys(p)

(***************************************************************************)
(* Vocabulary of the properties on one pass of the run loop.               *)
(***************************************************************************)
MultiStyle == {"readme", "sync_md"}

\* a child of p's last pass returned a non-zero code
ChildFailed(p) ==
  /\ obs[p].rc # 0
  /\ obs[p].key \in MultiStyle => obs[p].fail_at \in 1..Len(obs[p].styles)

\* the commands p ran for the step
CommandsOf(p, key) == SelectSeq(launched[p], LAMBDA l : l.key = key)

\* the number of checkpoints p wrote for the step
TimesMarked(p, key) == Cardinality({j \in 1..Len(marked[p]) : marked[p][j].key = key})

\* one command per style for the first n of the styles, in their order
PerStyle(key, styles, n) == [j \in 1..n |-> [key |-> key, style |-> styles[j]]]

(***************************************************************************)
(* C14. Step failure is fatal: when the child of a step returns a non-zero *)
(* code the run has exited with that code, the failed step's command is    *)
(* the last one run, and the run wrote no checkpoint for the step.         *)
(***************************************************************************)
C14_StepFailureFatal ==
  \A p \in Procs :
    ChildFailed(p) =>
      /\ pc[p] = "exited"
      /\ exit_code[p] = obs[p].rc
      /\ launched[p] # << >>
      /\ launched[p][Len(launched[p])].key = obs[p].key
      /\ idx[p] = step_index(obs[p].key)
      /\ obs[p].key \notin MarkedKeys(p)
      /\ state_dir[obs[p].key] = BeforeRun(p)[obs[p].key]

C14_Witness ==
  \E p \in Procs :
    /\ pc[p] = "exited"
    /\ obs[p].key = "tmdb"
    /\ obs[p].rc = 127
    /\ exit_code[p] = 127
    /\ "missing" \in MarkedKeys(p)
    /\ state_dir["tmdb"] = Absent

(***************************************************************************)
(* C15. Multi-style steps: the per-style command runs once per configured  *)
(* style, in the configured order; one checkpoint is written, after every  *)
(* style returned 0; when a style fails the later styles are not run, no   *)
(* checkpoint is written and the run exits with the failing code; every    *)
(* run that reaches the step starts at the first style.                    *)
(***************************************************************************)
C15_MultiStyle ==
  \A p \in Procs :
    (obs[p].key \in MultiStyle /\ obs[p].styles # << >>) =>
      LET k == obs[p].key
          st == obs[p].styles
          f == obs[p].fail_at
      IN IF f \notin 1..Len(st)
         THEN /\ CommandsOf(p, k) = PerStyle(k, st, Len(st))
              /\ TimesMarked(p, k) = 1
              /\ state_dir[k] # Absent
              /\ pc[p] = "loop"
              /\ idx[p] = step_index(k) + 1
         ELSE /\ CommandsOf(p, k) = PerStyle(k, st, IF obs[p].pre THEN f ELSE f - 1)
              /\ TimesMarked(p, k) = 0
              /\ state_dir[k] = BeforeRun(p)[k]
              /\ pc[p] = "exited"
              /\ exit_code[p] = IF obs[p].pre THEN obs[p].rc ELSE 2

C15_Witness ==
  \E p \in Procs :
    /\ obs[p].key = "sync_md"
    /\ Len(obs[p].styles) = MaxStyles
    /\ obs[p].fail_at = MaxStyles
    /\ obs[p].pre
    /\ Len(CommandsOf(p, "readme")) = MaxStyles
    /\ Len(CommandsOf(p, "sync_md")) = MaxStyles
    /\ at_start[p]["sync_md"] # Absent
    /\ args[p].redo = "readme"
    /\ MarkedKeys(p) = {"readme"}
    /\ pc[p] = "exited"

(***************************************************************************)
(* C16. Atomic checkpoint write: after a crash inside write_marker, during *)
(* the write of the temporary file or between it and the rename, the       *)
(* step's checkpoint file is what it was before the step, so a step that   *)
(* had no checkpoint is not seen as complete by marker_exists or --list.   *)
(***************************************************************************)
C16_CrashLeavesNoCheckpoint ==
  \A p \in Procs :
    outcome[p] = "killed_in_write" =>
      LET k == obs[p].key
      IN /\ tmp_dir[k] # Absent
         /\ state_dir[k] = BeforeRun(p)[k]
         /\ BeforeRun(p)[k] = Absent =>
              /\ ~marker_exists(state_dir, Some(k))
              /\ listing(state_dir).status[k] = "PENDING"

C16_Witness ==
  \E p \in Procs :
    /\ outcome[p] = "killed_in_write"
    /\ obs[p].key = "missing"
    /\ tmp_dir["missing"] = {"at", "argv"}
    /\ state_dir["name_check"] # Absent
    /\ state_dir["missing"] = Absent

(***************************************************************************)
(* C17. --list reports a step as ALWAYS if it is always_run, else as DONE  *)
(* if its checkpoint exists, else as PENDING; the next step it reports is  *)
(* the first step that is ALWAYS or PENDING; with no checkpoint at all     *)
(* every step that is not always_run is PENDING and the next step is the   *)
(* first registry entry.                                                   *)
(***************************************************************************)
C17_ListReports ==
  \A p \in Procs :
    (args[p].list /\ pc[p] # "idle") =>
      LET out == printed[p]
          open == {n \in StepIdx : out.status[steps[n].key] \in {"ALWAYS", "PENDING"}}
      IN /\ \A n \in StepIdx :
              out.status[steps[n].key] =
                IF steps[n].always_run THEN "ALWAYS"
                ELSE IF at_start[p][steps[n].key] # Absent THEN "DONE"
                ELSE "PENDING"
         /\ open # {}
         /\ \A n \in open : step_index(out.next) <= n
         /\ step_index(out.next) \in open
         /\ (\A k \in Keys : at_start[p][k] = Absent) =>
              /\ out.next = steps[1].key
              /\ \A n \in StepIdx : out.status[steps[n].key] \in {"ALWAYS", "PENDING"}

C17_Witness ==
  \E p \in Procs :
    /\ args[p].list
    /\ pc[p] = "exited"
    /\ printed[p].status["name_check"] = "DONE"
    /\ printed[p].status["missing"] = "PENDING"
    /\ printed[p].status["update"] = "ALWAYS"
    /\ printed[p].next = "ensure_repo"

(***************************************************************************)
(* C18. --list is non-destructive: an invocation with --list, whatever     *)
(* other options it has and whether or not run.lock exists, has exited     *)
(* with status 0, has run no command, and has left the checkpoint files    *)
(* and run.lock as they were.                                              *)
(***************************************************************************)
C18_ListTouchesNothing ==
  \A p \in Procs :
    (args[p].list /\ pc[p] # "idle") =>
      /\ pc[p] = "exited"
      /\ exit_code[p] = 0
      /\ launched[p] = << >>
      /\ marked[p] = << >>
      /\ state_dir = at_start[p]
      /\ lock_file = lock_at_start[p]
      /\ \A k \in Keys : tmp_dir[k] = Absent

C18_Witness ==
  \E p \in Procs :
    /\ args[p].list
    /\ args[p].force
    /\ args[p].redo = "tmdb"
    /\ args[p].from_key = "readme"
    /\ pc[p] = "exited"
    /\ lock_file = {StalePid}
    /\ state_dir["tmdb"] # Absent

(***************************************************************************)
(* C19. The always_run steps ensure_repo, update and push never have a     *)
(* checkpoint file, and a run that got past their position has executed    *)
(* them, whatever checkpoints exist.                                       *)
(***************************************************************************)
C19_AlwaysRunNeverMarked ==
  \A p \in Procs :
    \A k \in {"ensure_repo", "update", "push"} :
      /\ k \notin MarkedKeys(p)
      /\ state_dir[k] = Absent
      /\ tmp_dir[k] = Absent
      /\ (start_i[p] <= step_index(k) /\ step_index(k) < idx[p]) => k \in LaunchedKeys(p)

C19_Witness ==
  \E p \in Procs :
    /\ pc[p] = "exited"
    /\ outcome[p] = "completed"
    /\ \A k \in Keys : at_start[p][k] # Absent <=> k \notin {"ensure_repo", "update", "push"}
    /\ {"ensure_repo", "update", "push"} \subseteq LaunchedKeys(p)
    /\ Len(marked[p]) = Len(steps) - 3

(***************************************************************************)
(* C20. poster_ps1 without PowerShell: when it is not required no command  *)
(* is run, a checkpoint with the skipped flag is written and the loop goes *)
(* on to the next step; when it is required the run exits with status 2    *)
(* and writes no checkpoint.  No other step is recorded without having run *)
(* a command.                                                              *)
(***************************************************************************)
C20_PowerShellAbsent ==
  \A p \in Procs :
    /\ (obs[p].key = "poster_ps1" /\ ~obs[p].tool) =>
         /\ "poster_ps1" \notin LaunchedKeys(p)
         /\ IF obs[p].required
            THEN /\ pc[p] = "exited"
                 /\ exit_code[p] = 2
                 /\ "poster_ps1" \notin MarkedKeys(p)
                 /\ state_dir["poster_ps1"] = BeforeRun(p)["poster_ps1"]
            ELSE /\ pc[p] = "loop"
                 /\ idx[p] = step_index("poster_ps1") + 1
                 /\ Skipped(p, "poster_ps1")
                 /\ "skipped" \in state_dir["poster_ps1"]
    /\ \A k \in MarkedKeys(p) : k \in LaunchedKeys(p) \/ k = "poster_ps1"
    /\ \A k \in Keys : Skipped(p, k) => k = "poster_ps1"

C20_Witness ==
  \E p \in Procs :
    /\ Skipped(p, "poster_ps1")
    /\ "poster_ps1" \notin LaunchedKeys(p)
    /\ "skipped" \in state_dir["poster_ps1"]
    /\ "update" \in LaunchedKeys(p)

(***************************************************************************)
(* C21. Configuration and precondition errors fail fast: when the step     *)
(* reached has an unmet precondition (logs directory for name_check and    *)
(* missing, TMDB_KEY for tmdb, repo root for update, sync_images, readme,  *)
(* sync_md and push, background output directory required but unknown for *)
(* remove_bg) the run has exited with status 2, has run no command of the  *)
(* step and has written no checkpoint for it, whether or not it had one.   *)
(***************************************************************************)
\* the precondition of the step of the pass was unmet when the step began
Unmet(in) ==
  CASE in.key \in {"name_check", "missing", "tmdb", "update", "sync_images", "push"} ->
         ~in.pre
    [] in.key \in MultiStyle -> ~in.pre /\ in.fail_at = 1 /\ in.styles # << >>
    [] in.key = "remove_bg" -> in.required /\ ~in.dir_set
    [] OTHER -> FALSE

C21_PreconditionFailsFast ==
  \A p \in Procs :
    Unmet(obs[p]) =>
      /\ pc[p] = "exited"
      /\ exit_code[p] = 2
      /\ idx[p] = step_index(obs[p].key)
      /\ obs[p].key \notin LaunchedKeys(p)
      /\ obs[p].key \notin MarkedKeys(p)
      /\ state_dir[obs[p].key] = BeforeRun(p)[obs[p].key]

C21_Witness ==
  \E p \in Procs :
    /\ obs[p].key = "tmdb"
    /\ ~obs[p].pre
    /\ args[p].force
    /\ at_start[p]["tmdb"] # Absent
    /\ state_dir["tmdb"] # Absent
    /\ "missing" \in LaunchedKeys(p)
    /\ exit_code[p] = 2

(***************************************************************************)
(* C22. Exit-code mapping of a run (an invocation without --list): the     *)
(* status is 0 exactly when the run ended with all steps completed or with *)
(* a confident early stop; a step failure gives the failed child's         *)
(* non-zero code, a configuration or precondition error and an unknown     *)
(* --from or --redo key give 2, lock contention gives 3.                   *)
(***************************************************************************)
C22_ExitCodes ==
  \A p \in Procs :
    (pc[p] = "exited" /\ ~args[p].list) =>
      /\ exit_code[p] = 0 <=> outcome[p] \in {"completed", "early_stop"}
      /\ outcome[p] = "completed" => idx[p] = Len(steps) + 1
      /\ ChildFailed(p) => exit_code[p] = obs[p].rc /\ exit_code[p] # 0
      /\ Unmet(obs[p]) => exit_code[p] = 2
      /\ outcome[p] \in {"config", "bad_key"} => exit_code[p] = 2
      /\ args[p].redo \notin Keys \cup {""} => exit_code[p] = 2
      /\ (args[p].redo \in Keys \cup {""} /\ ~args[p].force
            /\ args[p].from_key \notin Keys \cup {""}) => exit_code[p] = 2
      /\ outcome[p] = "locked" => exit_code[p] = 3
      /\ (lock_at_start[p] # {} /\ Started(p)) => exit_code[p] = 3

C22_Witness ==
  \E p \in Procs :
    /\ pc[p] = "exited"
    /\ outcome[p] = "early_stop"
    /\ exit_code[p] = 0
    /\ obs[p].key = "missing_dir"
    /\ args[p].from_key = "tmdb"

(***************************************************************************)
(* C23 as stated. Cancellation: when the run is interrupted while a step   *)
(* runs (Ctrl-C raising KeyboardInterrupt, or a signal that kills the      *)
(* process), no checkpoint is written for the interrupted step and         *)
(* run.lock still exists afterwards.                                       *)
(***************************************************************************)
Interrupted(p) == outcome[p] \in {"exception", "killed", "killed_in_write"}

C23_Original_InterruptKeepsLock ==
  \A p \in Procs :
    Interrupted(p) =>
      /\ obs[p].key \notin MarkedKeys(p)
      /\ lock_file # {}

(***************************************************************************)
(* C23 as amended. No checkpoint is written for the interrupted step.      *)
(* After an interrupt that unwinds the interpreter (Ctrl-C) the finally    *)
(* clause has removed run.lock; only when the process is killed without    *)
(* unwinding does run.lock stay, and an invocation that finds run.lock     *)
(* exits with status 3 without running a step.                             *)
(***************************************************************************)
C23_InterruptReleasesKillKeeps ==
  \A p \in Procs :
    /\ Interrupted(p) =>
         /\ obs[p].key \notin MarkedKeys(p)
         /\ state_dir[obs[p].key] = BeforeRun(p)[obs[p].key]
         /\ IF outcome[p] = "exception"
            THEN lock_file = {}
            ELSE lock_file = {p}
    /\ (lock_at_start[p] # {} /\ Started(p)) =>
         /\ pc[p] \in {"acquire", "exited"}
         /\ pc[p] = "exited" => exit_code[p] = 3
         /\ launched[p] = << >>

C23_Witness ==
  \E p \in Procs :
    /\ outcome[p] = "killed"
    /\ obs[p].key = "tmdb"
    /\ "missing" \in MarkedKeys(p)
    /\ "tmdb" \notin MarkedKeys(p)
    /\ lock_file = {p}

(***************************************************************************)
(* C24. Resume-point derivation: without --from and --force the start      *)
(* index is the first step, in registry order, that is always_run or has   *)
(* no checkpoint file among the files as they are when the start is        *)
(* computed.                                                               *)
(***************************************************************************)
C24_ResumePoint ==
  \A p \in Procs :
    (args[p].from_key = "" /\ ~args[p].force /\ ~args[p].list /\ Started(p)) =>
      LET hits == {n \in StepIdx : steps[n].always_run
                                   \/ BeforeRun(p)[steps[n].key] = Absent}
      IN /\ start_i[p] \in hits
         /\ \A n \in hits : start_i[p] <= n

C24_Witness ==
  \E p \in Procs :
    /\ Plain(args[p])
    /\ at_start[p]["name_check"] # Absent
    /\ at_start[p]["missing"] = Absent
    /\ pc[p] = "loop"
    /\ idx[p] = start_i[p]
    /\ steps[start_i[p]].key = "ensure_repo"

(***************************************************************************)
(* C25. A checkpoint file comes into being or changes its content only in  *)
(* the pass of the run loop for its step, in which every child returned 0  *)
(* or the step was an accepted skip, and after which the loop goes on to   *)
(* the next step; no other step of an invocation creates a checkpoint.     *)
(***************************************************************************)
C25_CheckpointOnlyOnSuccess ==
  [][\A k \in Keys :
       (state_dir'[k] # state_dir[k] /\ state_dir'[k] # Absent) =>
         \E p \in Procs :
           /\ pc[p] = "loop"
           /\ pc'[p] = "loop"
           /\ idx[p] = step_index(k)
           /\ idx'[p] = idx[p] + 1
           /\ obs'[p].key = k
           /\ obs'[p].rc = 0 \/ (k \in MultiStyle /\ obs'[p].fail_at \notin 1..Len(obs'[p].styles))
           /\ \/ launched'[p] # launched[p]
                 /\ launched'[p][Len(launched'[p])].key = k
              \/ "skipped" \in state_dir'[k] /\ k = "poster_ps1" /\ ~obs'[p].tool]_vars

C25_Witness ==
  \E p \in Procs :
    /\ at_start[p]["remove_bg"] = Absent
    /\ state_dir["remove_bg"] = {"at", "argv"}
    /\ state_dir["poster_ps1"] = {"skipped", "at"}
    /\ pc[p] = "loop"
    /\ idx[p] = step_index("update")

C27_RemoveBgStop ==
  \A p \in Procs :
    (obs[p].key = "remove_bg" /\ ChildSucceeded(p)) =>
      LET in == obs[p]
          counted == IF in.dir_set /\ in.dir_ok THEN in.recent ELSE 0
      IN /\ outcome[p] = "early_stop" =>
              /\ counted = 0
              /\ ~in.cont
              /\ \A j \in CountLines(in) : in.log.lines[j].n = 0
         /\ in.cont =>
              /\ pc[p] = "loop"
              /\ steps[idx[p]].key = "poster_ps1"
              /\ "remove_bg" \in MarkedKeys(p)
              /\ state_dir["remove_bg"] # Absent

C27_Witness ==
  \E p \in Procs :
    /\ obs[p].key = "remove_bg"
    /\ obs[p].cont
    /\ obs[p].recent = 0
    /\ obs[p].log = File(<<Line("files", 0)>>)
    /\ ChildSucceeded(p)
    /\ pc[p] = "loop"
    /\ "remove_bg" \in MarkedKeys(p)

(***************************************************************************)
(* C28. Lock ownership on release: while an invocation is executing steps  *)
(* run.lock exists; no other invocation removes it, neither one that       *)
(* failed to acquire it nor one that finishes meanwhile.                   *)
(***************************************************************************)
C28_RunningKeepsLock ==
  \A p \in Procs : pc[p] = "loop" => lock_file # {}

(***************************************************************************)
(* C29. Checkpoints reflect the latest execution: when a step is executed  *)
(* and its child fails or the run stops early at it, no checkpoint file of *)
(* the step is left, also when the step had one before the run.            *)
(***************************************************************************)
C29_NoCheckpointAfterFailedRerun ==
  \A p \in Procs :
    (pc[p] = "exited" /\ outcome[p] \in {"step_failed", "early_stop"}
       /\ launched[p] # << >> /\ launched[p][Len(launched[p])].key = obs[p].key) =>
      state_dir[obs[p].key] = Absent

(***************************************************************************)
(* C30. Termination: an invocation whose children all return reaches a     *)
(* terminal state (lock contention, configuration error, step failure,     *)
(* confident early stop or all steps completed) and stays in it; its loop  *)
(* index never goes back and moves by one step at a time from the start    *)
(* index.                                                                  *)
(***************************************************************************)
Terminal(p) ==
  /\ pc[p] = "exited"
  /\ outcome[p] \in {"locked", "bad_key", "config", "step_failed", "early_stop", "completed"}

C30_Terminates ==
  /\ (pc[Main] = "redo") ~> Terminal(Main)
  /\ [][pc[Main] = "loop" => idx'[Main] \in {idx[Main], idx[Main] + 1}]_vars
  /\ [][pc[Main] = "loop" /\ pc'[Main] = "loop" => idx'[Main] = idx[Main] + 1]_vars
  /\ [][pc[Main] = "exited" =>
          /\ pc'[Main] = "exited"
          /\ outcome'[Main] = outcome[Main]
          /\ exit_code'[Main] = exit_code[Main]]_vars

C30_Witness ==
  /\ Terminal(Main)
  /\ outcome[Main] = "completed"
  /\ start_i[Main] = 1
  /\ idx[Main] = Len(steps) + 1
  /\ Len(launched[Main]) = Len(steps) - 2 + 2 * MaxStyles

=============================================================================
